---- MODULE Spec2Model ----
(***************************************************************************)
(* A model of the SUNAPI client's authenticated request pipeline           *)
(* (SunapiClient: session state, login / logout, the axios interceptors,   *)
(* request() and ping()).                                                  *)
(*                                                                         *)
(* Execution model.  JavaScript runs every continuation to its next await  *)
(* of network I/O without preemption.  A task is one call of a public      *)
(* method; its stack holds the suspended async frames (request, login,     *)
(* logout, ping and the axios call with its response interceptor).  An     *)
(* HTTP exchange is in flight while the top frame is an axios frame in     *)
(* stage "inflight".  When the device answers, the response interceptor    *)
(* runs; the value or the error it produces is handed down the stack,      *)
(* frame by frame (Run), until a frame dispatches the next HTTP call or    *)
(* the method's promise settles.  All of that is one step: nothing else    *)
(* runs in between.                                                        *)
(***************************************************************************)
EXTENDS Integers, Sequences, FiniteSets, TLC

VARIABLES
    now,        \* Date.now(), in milliseconds
    ticks,      \* how often the clock has advanced (bounds the model)
    authToken,  \* client -> SunapiClient.authToken
    sessionId,  \* client -> SunapiClient.sessionId
    tasks,      \* task -> the call of a public method it is running
    observed,   \* the result of isAuthenticated() when it was the last step
    call,       \* a function of the library applied on its own: input, result
    ops         \* how many calls of the Sunapi facade and of its modules were made

vars == <<now, ticks, authToken, sessionId, tasks, observed, call, ops>>

----------------------------------------------------------------------------
(* Bounds of the model *)

\* HTTP calls one task may dispatch
MaxCalls == 4
\* clock advances in one behaviour
MaxTicks == 2

(* Program constants *)

\* (data.expires || 3600)
DefaultExpires == 3600
\* ... * 1000
MsPerSecond == 1000
\* error.response?.status === 401
Unauthorized == 401
\* data.maxSessions || 10
DefaultMaxSessions == 10

Undefined == "undefined"

\* JavaScript truthiness of an optional string
Truthy(s) == s # Undefined /\ s # ""

\* a || b on optional strings
OrElse(a, b) == IF Truthy(a) THEN a ELSE b

\* d.f for an object d: undefined when the key is missing
Field(d, f) == IF f \in DOMAIN d THEN d[f] ELSE Undefined

----------------------------------------------------------------------------
(* Error types *)

SunapiError(message, statusCode) ==
    [name |-> "SunapiError", message |-> message, statusCode |-> statusCode]

\* new SunapiError(message): statusCode stays undefined
SunapiErrorNoStatus(message) ==
    [name |-> "SunapiError", message |-> message]

AuthenticationError(message) ==
    [name |-> "AuthenticationError", message |-> message, statusCode |-> Unauthorized]

ConnectionError(message) ==
    [name |-> "ConnectionError", message |-> message, statusCode |-> 0]

----------------------------------------------------------------------------
(* What the device and the transport can answer *)

\* response bodies of the login endpoint that report status OK: a token and
\* a session id, each sent or not, without a lifetime; and a lifetime of 0 or
\* 1 second
LoginOkBodies ==
    {[status |-> "OK", token |-> tk, sessionId |-> sid] :
        tk \in {Undefined, "tokA"}, sid \in {Undefined, "sidA"}}
    \cup
    {[status |-> "OK", token |-> "tokB", sessionId |-> "sidB", expires |-> e] :
        e \in {0, 1}}

\* response bodies of the login endpoint that report a failure
LoginFailBodies ==
    {[status |-> "ERROR", message |-> "Invalid credentials"], [status |-> "ERROR"]}

\* a JSON null body: reading a property of it throws a TypeError
NullBody == [isNull |-> TRUE]

FeatureBodies == {[payload |-> "d1"], [payload |-> "d2"]}

\* 2xx bodies by the kind of call
Bodies(kind) ==
    CASE kind = "login"   -> LoginOkBodies \cup LoginFailBodies \cup {NullBody}
      [] kind = "feature" -> FeatureBodies
      [] OTHER            -> {[status |-> "OK"]}

\* an AxiosError with a response (a non-2xx status)
HttpErrors ==
    {[message |-> "Request failed", response |-> [status |-> st, data |-> body]] :
        st \in {Unauthorized, 500},
        body \in {[message |-> "device message"], [detail |-> "none"]}}

\* an AxiosError without a response (connection refused, host not found, timeout)
NetworkErrors ==
    {[message |-> "network failure", code |-> cd] :
        cd \in {"ECONNREFUSED", "ENOTFOUND", "ECONNABORTED"}}

AxiosErrors == HttpErrors \cup NetworkErrors

\* the status of a failure as logged in a task's trace; "network" when there
\* was no response
ErrorStatus(error) ==
    IF "response" \in DOMAIN error
    THEN IF error.response.status = Unauthorized THEN "401" ELSE "500"
    ELSE "network"

\* the status of a 2xx answer as logged in a task's trace: for the login
\* endpoint, with the status its body reports
ResponseStatus(kind, body) ==
    IF kind # "login" THEN "200"
    ELSE IF "isNull" \in DOMAIN body THEN "200 null"
    ELSE IF body.status = "OK" THEN "200 OK" ELSE "200 ERROR"

\* no answer yet
NoAnswer == [type |-> "none"]

----------------------------------------------------------------------------
(* SunapiClient: pure parts *)

\* a faulty variant of handleError: a refused connection is not told apart from
\* other failures without a response
handleErrorNoConnection(error) ==
    IF "response" \in DOMAIN error
    THEN LET statusCode == error.response.status
             message == OrElse(Field(error.response.data, "message"), error.message)
         IN  IF statusCode = Unauthorized
             THEN AuthenticationError(message)
             ELSE SunapiError(message, statusCode)
    ELSE SunapiErrorNoStatus(error.message)

\* a faulty variant of handleError: a response with status 401 is classified as
\* any other response
handleErrorGeneric401(error) ==
    IF Field(error, "code") \in {"ECONNREFUSED", "ENOTFOUND"}
    THEN ConnectionError("Cannot connect to host:port")
    ELSE IF "response" \in DOMAIN error
    THEN SunapiError(OrElse(Field(error.response.data, "message"), error.message),
                     error.response.status)
    ELSE SunapiErrorNoStatus(error.message)

\* handleError(error)
handleError(error) ==
    IF Field(error, "code") \in {"ECONNREFUSED", "ENOTFOUND"}
    THEN ConnectionError("Cannot connect to host:port")
    ELSE IF "response" \in DOMAIN error
    THEN LET statusCode == error.response.status
             message == OrElse(Field(error.response.data, "message"), error.message)
         IN  IF statusCode = Unauthorized
             THEN AuthenticationError(message)
             ELSE SunapiError(message, statusCode)
    ELSE SunapiErrorNoStatus(error.message)

NoToken == [present |-> FALSE]

\* the headers of a call before the request interceptor has run
NoHdr == [auth |-> Undefined, sid |-> Undefined]

\* a faulty variant of isAuthenticatedAt: expiry compared with >=
isAuthenticatedAtLoose(tok, t) == tok.present /\ tok.expiresAt >= t

\* isAuthenticated(), on a given token record and clock reading
isAuthenticatedAt(tok, t) == tok.present /\ tok.expiresAt > t

isAuthenticated(c) == isAuthenticatedAt(authToken[c], now)

\* the request interceptor, on the headers `config` of the call being
\* dispatched (those of the first attempt when the call is a retry): a header
\* is overwritten when the client has a value for it and kept otherwise
requestInterceptor(tok, sid, config) ==
    [auth |-> IF tok.present /\ tok.expiresAt > now THEN tok.token ELSE config.auth,
     sid  |-> IF Truthy(sid) THEN sid ELSE config.sid]

\* (data.expires || 3600)
lifetime(data) ==
    IF "expires" \in DOMAIN data /\ data.expires # 0 THEN data.expires ELSE DefaultExpires

\* a faulty variant of newAuthToken: the expiry is the lifetime alone, not counted
\* from the current time
newAuthTokenNoClock(data, t) ==
    [present   |-> TRUE,
     token     |-> OrElse(data.token, data.sessionId),
     expiresAt |-> lifetime(data) * MsPerSecond,
     sessionId |-> data.sessionId]

\* the token record login() stores for a body with status OK, at time t
newAuthToken(data, t) ==
    [present   |-> TRUE,
     token     |-> OrElse(data.token, data.sessionId),
     expiresAt |-> t + lifetime(data) * MsPerSecond,
     sessionId |-> data.sessionId]

\* a faulty variant of shouldRefresh: any failure starts a re-login while a token
\* is stored
shouldRefreshAnyFailure(error, tok) == tok.present

\* the condition under which the response interceptor starts a re-login
shouldRefresh(error, tok) ==
    /\ "response" \in DOMAIN error
    /\ error.response.status = Unauthorized
    /\ tok.present

\* the envelope request() returns for a caught error
errorEnvelope(err) ==
    IF "statusCode" \in DOMAIN err
    THEN [success |-> FALSE, error |-> err.message, statusCode |-> err.statusCode]
    ELSE [success |-> FALSE, error |-> err.message]

----------------------------------------------------------------------------
(* Tasks, frames and signals *)

Frame(k, stage, kind, hdr) == [k |-> k, stage |-> stage, kind |-> kind, hdr |-> hdr]

Event(e, kind, status) == [e |-> e, kind |-> kind, status |-> status]

Pending == [state |-> "pending"]

\* no result of isAuthenticated() is held
NotObserved == [called |-> FALSE]

\* no function is applied on its own
NoCall == [fn |-> "none"]

\* no call of the facade or of a module has been made
NoOps == [facade |-> 0, module |-> 0]

IdleTask(c) ==
    [client |-> c, op |-> "idle", stack |-> <<>>, outcome |-> Pending,
     trace |-> <<>>, last |-> NoAnswer, startAuth |-> "absent", settledAt |-> 0]

NoSig == [type |-> "none"]
Value(v) == [type |-> "value", v |-> v]
Error(err) == [type |-> "error", err |-> err]

TopOf(stack) == stack[Len(stack)]
Pop(stack) == SubSeq(stack, 1, Len(stack) - 1)
ReplaceTop(stack, f) == Append(Pop(stack), f)

\* the session as the client sees it: absent, valid or expired
AuthState(c) ==
    IF ~authToken[c].present THEN "absent"
    ELSE IF authToken[c].expiresAt > now THEN "valid" ELSE "expired"

\* HTTP calls of some kinds a trace has dispatched
Sends(tr, kinds) == {i \in DOMAIN tr : tr[i].e = "send" /\ tr[i].kind \in kinds}
AllKinds == {"feature", "login", "logout", "ping"}

\* A running task with the session of its client: tk the task, sig the value
\* or error being handed to its top frame, tok and sid the client's authToken
\* and sessionId, blocked when a call would exceed MaxCalls; share tells what
\* the Sunapi facade does to its modules' sessions in this step ("keep",
\* "copy" the client's session to them, or "clear" them).
Machine(tk, tok, sid) ==
    [tk |-> tk, sig |-> NoSig, tok |-> tok, sid |-> sid, blocked |-> FALSE,
     share |-> "keep"]

\* this.axiosInstance.<method>(...) with the headers `config`: the request
\* interceptor runs and the call is on the wire
Dispatch(st, kind, config) ==
    IF Cardinality(Sends(st.tk.trace, AllKinds)) >= MaxCalls
    THEN [st EXCEPT !.blocked = TRUE, !.sig = NoSig]
    ELSE [st EXCEPT
            !.tk.stack = Append(@, Frame("axios", "inflight", kind,
                                        requestInterceptor(st.tok, st.sid, config))),
            !.tk.trace = Append(@, Event("send", kind, "-")),
            !.sig = NoSig]

\* a call of this.login() from a frame of the task: it posts the credentials
CallLogin(st) ==
    Dispatch([st EXCEPT !.tk.stack = Append(@, Frame("login", "-", "-", NoHdr))],
             "login", NoHdr)

----------------------------------------------------------------------------
(* The response interceptor *)

\* a 2xx response: (response) => response
interceptFulfilled(st, response) ==
    [st EXCEPT !.tk.stack = Pop(@),
               !.tk.trace = Append(@, Event("recv", TopOf(st.tk.stack).kind,
                                          ResponseStatus(TopOf(st.tk.stack).kind,
                                                         response.data))),
               !.tk.last = [type |-> "response", response |-> response],
               !.sig = Value(response)]

\* a failure: with status 401 while a token is stored, await this.login();
\* otherwise throw this.handleError(error)
interceptRejected(st, error) ==
    LET top == TopOf(st.tk.stack)
        got == Append(st.tk.trace, Event("recv", top.kind, ErrorStatus(error)))
        last == [type |-> "error", error |-> error]
    IN  IF shouldRefresh(error, st.tok)
        THEN CallLogin([st EXCEPT
                 !.tk.stack = ReplaceTop(@, [top EXCEPT !.stage = "refresh"]),
                 !.tk.trace = Append(got, Event("refresh", top.kind, "-")),
                 !.tk.last = last])
        ELSE [st EXCEPT !.tk.stack = Pop(@),
                        !.tk.trace = got,
                        !.tk.last = last,
                        !.sig = Error(handleError(error))]

\* a faulty variant of refreshThen: the call is not retried after the re-login
refreshThenNoRetry(st) ==
    [st EXCEPT !.tk.stack = Pop(@),
               !.sig = Error(AuthenticationError("Unauthorized"))]

\* the re-login succeeded: return this.axiosInstance.request(error.config)
refreshThen(st) ==
    LET top == TopOf(st.tk.stack)
    IN  Dispatch([st EXCEPT
                    !.tk.stack = ReplaceTop(@, [top EXCEPT !.stage = "retry"]),
                    !.tk.trace = Append(@, Event("retry", top.kind, "-"))],
                 top.kind, top.hdr)

\* a faulty variant of refreshCatch: the error of the re-login is rethrown as it is
refreshCatchRethrow(st) ==
    [st EXCEPT
       !.tk.stack = Pop(@),
       !.tk.trace = Append(@, Event("refreshFailed", TopOf(st.tk.stack).kind, "-"))]

\* the re-login failed: catch (refreshError) { throw new AuthenticationError }
refreshCatch(st) ==
    [st EXCEPT
       !.tk.stack = Pop(@),
       !.tk.trace = Append(@, Event("refreshFailed", TopOf(st.tk.stack).kind, "-")),
       !.sig = Error(AuthenticationError("Session expired and refresh failed"))]

\* the retried call settled: its value or its error is the interceptor's
retrySettled(st) == [st EXCEPT !.tk.stack = Pop(@)]

----------------------------------------------------------------------------
(* login(), logout() and ping() after their calls *)

\* a faulty variant of loginThen: the token record is stored and the session
\* id is left as it was
loginThenTokenOnly(st) ==
    LET data == st.sig.v.data
    IN  IF "isNull" \in DOMAIN data \/ data.status # "OK"
        THEN [st EXCEPT !.tk.stack = Pop(@),
                        !.sig = Error(AuthenticationError("Login failed"))]
        ELSE [st EXCEPT !.tk.stack = Pop(@),
                        !.tok = newAuthToken(data, now),
                        !.sig = Value([success |-> TRUE])]

\* the post resolved with a 2xx response
loginThen(st) ==
    LET data == st.sig.v.data
        tok == newAuthToken(data, now)
    IN  IF "isNull" \in DOMAIN data
        THEN \* data.status throws a TypeError, which is no SunapiError
             [st EXCEPT !.tk.stack = Pop(@),
                        !.sig = Error(handleError([message |-> "TypeError"]))]
        ELSE IF data.status = "OK"
        THEN [st EXCEPT
                !.tk.stack = Pop(@),
                !.tok = tok,
                !.sid = data.sessionId,
                !.sig = Value([success |-> TRUE,
                               data |-> [token |-> tok.token,
                                         sessionId |-> data.sessionId,
                                         userLevel |-> OrElse(Field(data, "userLevel"),
                                                              "admin"),
                                         maxSessions |-> DefaultMaxSessions]])]
        ELSE [st EXCEPT
                !.tk.stack = Pop(@),
                !.sig = Error(AuthenticationError(
                                 OrElse(Field(data, "message"), "Login failed")))]

\* the post failed: the interceptor threw a SunapiError, which is rethrown
loginCatch(st) == [st EXCEPT !.tk.stack = Pop(@)]

\* the logout post resolved: the session is cleared
logoutThen(st) ==
    [st EXCEPT !.tk.stack = Pop(@), !.tok = NoToken, !.sid = Undefined,
               !.sig = Value([success |-> TRUE])]

\* a faulty variant of logoutCatch: the session is kept when the call failed
logoutCatchKeeps(st) ==
    [st EXCEPT !.tk.stack = Pop(@), !.sig = Value([success |-> TRUE])]

\* even if logout fails, clear local auth state
logoutCatch(st) ==
    [st EXCEPT !.tk.stack = Pop(@), !.tok = NoToken, !.sid = Undefined,
               !.sig = Value([success |-> TRUE])]

pingThen(st) ==
    [st EXCEPT !.tk.stack = Pop(@),
               !.sig = Value([success |-> TRUE, data |-> [alive |-> TRUE],
                              statusCode |-> st.sig.v.status])]

pingCatch(st) ==
    [st EXCEPT !.tk.stack = Pop(@),
               !.sig = Value([success |-> FALSE, data |-> [alive |-> FALSE],
                              error |-> "Device unreachable"])]

----------------------------------------------------------------------------
(* request() after ensureAuthenticated() and after the feature call *)

\* the login of ensureAuthenticated() returned: the feature call is dispatched
ensureAuthenticatedThen(st) ==
    IF st.sig.v.success
    THEN Dispatch([st EXCEPT !.tk.stack =
                      ReplaceTop(@, [TopOf(st.tk.stack) EXCEPT !.stage = "call"])],
                  "feature", NoHdr)
    ELSE [st EXCEPT !.tk.stack = Pop(@),
                    !.sig = Error(AuthenticationError("Failed to authenticate"))]

\* the login of ensureAuthenticated() threw: request() rejects with its error
ensureAuthenticatedCatch(st) == [st EXCEPT !.tk.stack = Pop(@)]

\* the feature call returned a response: the success envelope
requestThen(st) ==
    [st EXCEPT !.tk.stack = Pop(@),
               !.sig = Value([success |-> TRUE, data |-> st.sig.v.data,
                              statusCode |-> st.sig.v.status])]

\* a faulty variant of requestCatch: the error is rethrown to the caller
requestCatchRethrow(st) == [st EXCEPT !.tk.stack = Pop(@)]

\* the feature call threw: the error becomes a failure envelope
requestCatch(st) ==
    [st EXCEPT !.tk.stack = Pop(@), !.sig = Value(errorEnvelope(st.sig.err))]

----------------------------------------------------------------------------
(* The Sunapi facade: connect() and disconnect() *)

\* the modules of a Sunapi instance, each a SunapiClient of its own
Modules == {"system", "video", "ptz", "events", "recording"}

\* login() returned: the session is copied to the five modules when both
\* authToken and sessionId are truthy
connectThen(st) ==
    IF ~st.sig.v.success
    THEN [st EXCEPT !.tk.stack = Pop(@),
                    !.sig = Error([name |-> "Error", message |-> "Failed to connect"])]
    ELSE [st EXCEPT !.tk.stack = Pop(@),
                    !.share = IF st.tok.present /\ Truthy(st.sid) THEN "copy" ELSE "keep",
                    !.sig = Value([void |-> TRUE])]

\* login() threw: connect() rejects with its error
connectCatch(st) == [st EXCEPT !.tk.stack = Pop(@)]

\* a faulty variant of disconnectThen: the modules keep their sessions
disconnectThenKeeps(st) ==
    [st EXCEPT !.tk.stack = Pop(@), !.sig = Value([void |-> TRUE])]

\* logout() returned: the session of every module is cleared
disconnectThen(st) ==
    [st EXCEPT !.tk.stack = Pop(@), !.share = "clear", !.sig = Value([void |-> TRUE])]

\* logout() threw: disconnect() rejects with its error
disconnectCatch(st) == [st EXCEPT !.tk.stack = Pop(@)]

----------------------------------------------------------------------------
(* Running a task to its next suspension *)

\* the promise of the public method settles
settle(st) ==
    [st EXCEPT
       !.tk.outcome = IF st.sig.type = "value"
                      THEN [state |-> "resolved", value |-> st.sig.v]
                      ELSE [state |-> "rejected", error |-> st.sig.err],
       !.tk.settledAt = now,
       !.sig = NoSig]

\* the top frame takes the value or the error handed to it
Resume(st) ==
    LET top == TopOf(st.tk.stack)
        ok == st.sig.type = "value"
    IN  CASE top.k = "login"  -> IF ok THEN loginThen(st) ELSE loginCatch(st)
          [] top.k = "logout" -> IF ok THEN logoutThen(st) ELSE logoutCatch(st)
          [] top.k = "ping"   -> IF ok THEN pingThen(st) ELSE pingCatch(st)
          [] top.k = "connect" -> IF ok THEN connectThen(st) ELSE connectCatch(st)
          [] top.k = "disconnect" ->
                IF ok THEN disconnectThen(st) ELSE disconnectCatch(st)
          [] top.k = "request" /\ top.stage = "auth" ->
                IF ok THEN ensureAuthenticatedThen(st) ELSE ensureAuthenticatedCatch(st)
          [] top.k = "request" /\ top.stage = "call" ->
                IF ok THEN requestThen(st) ELSE requestCatch(st)
          [] top.k = "axios" /\ top.stage = "refresh" ->
                IF ok THEN refreshThen(st) ELSE refreshCatch(st)
          [] top.k = "axios" /\ top.stage = "retry" -> retrySettled(st)

RECURSIVE Run(_)
Run(st) ==
    IF st.blocked \/ st.sig.type = "none" THEN st
    ELSE IF st.tk.stack = <<>> THEN settle(st)
    ELSE Run(Resume(st))

\* a faulty variant of Commit: one session is held in common by the client
\* and its modules
CommitShared(t, st) ==
    /\ ~st.blocked
    /\ tasks' = [tasks EXCEPT ![t] = st.tk]
    /\ authToken' = [c \in DOMAIN authToken |-> st.tok]
    /\ sessionId' = [c \in DOMAIN sessionId |-> st.sid]
    /\ observed' = NotObserved
    /\ UNCHANGED <<now, ticks, call>>

\* the state after a step of task t that ends in st
Commit(t, st) ==
    /\ ~st.blocked
    /\ tasks' = [tasks EXCEPT ![t] = st.tk]
    /\ authToken' = [c \in DOMAIN authToken |->
                        IF c = st.tk.client THEN st.tok
                        ELSE IF c \in Modules /\ st.share = "copy" THEN st.tok
                        ELSE IF c \in Modules /\ st.share = "clear" THEN NoToken
                        ELSE authToken[c]]
    /\ sessionId' = [c \in DOMAIN sessionId |->
                        IF c = st.tk.client THEN st.sid
                        ELSE IF c \in Modules /\ st.share = "copy" THEN st.sid
                        ELSE IF c \in Modules /\ st.share = "clear" THEN Undefined
                        ELSE sessionId[c]]
    /\ observed' = NotObserved
    /\ UNCHANGED <<now, ticks, call>>

\* a task that can take a new call: it never ran, or its last call settled
Free(t) == tasks[t].stack = <<>>

\* task t awaits the answer to an HTTP call
InFlight(t) ==
    /\ tasks[t].stack # <<>>
    /\ TopOf(tasks[t].stack).k = "axios"
    /\ TopOf(tasks[t].stack).stage = "inflight"

\* the machine of a running task
Cur(t) == Machine(tasks[t], authToken[tasks[t].client], sessionId[tasks[t].client])

\* the machine of a task that starts a call of op on client c
Begin(c, op, frames) ==
    Machine([IdleTask(c) EXCEPT !.op = op, !.startAuth = AuthState(c), !.stack = frames],
            authToken[c], sessionId[c])

----------------------------------------------------------------------------
(* The clock and isAuthenticated() *)

\* The client reads the clock only to compare it with a stored expiry, so
\* the clock advances to the next instant at which such a comparison changes:
\* to the expiry of a token that is still valid, and one millisecond past an
\* expiry that is reached.
TickSteps ==
    {authToken[c].expiresAt - now :
        c \in {x \in DOMAIN authToken :
                 authToken[x].present /\ authToken[x].expiresAt > now}}
    \cup
    {1 : c \in {x \in DOMAIN authToken :
                  authToken[x].present /\ authToken[x].expiresAt = now}}

Tick ==
    /\ ticks < MaxTicks
    /\ \E d \in TickSteps : now' = now + d
    /\ ticks' = ticks + 1
    /\ observed' = NotObserved
    /\ UNCHANGED <<authToken, sessionId, tasks, call, ops>>

\* a caller reads isAuthenticated(): the result is kept until the next step
CheckAuthenticated(c) ==
    /\ observed = NotObserved
    /\ observed' = [called |-> TRUE, client |-> c, result |-> isAuthenticated(c)]
    /\ UNCHANGED <<now, ticks, authToken, sessionId, tasks, call, ops>>

----------------------------------------------------------------------------
(* Calls of the public methods *)

\* request(): ensureAuthenticated() first; it calls login() when the client
\* is not authenticated, and the feature call is dispatched otherwise
requestStart(c) ==
    IF ~isAuthenticated(c)
    THEN CallLogin(Begin(c, "request", <<Frame("request", "auth", "-", NoHdr)>>))
    ELSE Dispatch(Begin(c, "request", <<Frame("request", "call", "-", NoHdr)>>),
                  "feature", NoHdr)

request(t, c) ==
    /\ Free(t)
    /\ Commit(t, Run(requestStart(c)))

\* login(): posts the credentials
loginStart(c) == CallLogin(Begin(c, "login", <<>>))

login(t, c) ==
    /\ Free(t)
    /\ Commit(t, Run(loginStart(c)))

\* logout(): returns at once without a token, posts the logout otherwise
logoutStart(c) ==
    IF ~authToken[c].present
    THEN [Begin(c, "logout", <<>>) EXCEPT !.sig = Value([success |-> TRUE])]
    ELSE Dispatch(Begin(c, "logout", <<Frame("logout", "-", "-", NoHdr)>>),
                  "logout", NoHdr)

logout(t, c) ==
    /\ Free(t)
    /\ Commit(t, Run(logoutStart(c)))

\* ping() (and Sunapi.healthCheck(), which returns this.ping())
ping(t, c) ==
    /\ Free(t)
    /\ Commit(t, Run(Dispatch(Begin(c, "ping", <<Frame("ping", "-", "-", NoHdr)>>),
                              "ping", NoHdr)))

----------------------------------------------------------------------------
(* The device answers *)

\* a 2xx response arrives
responseFulfilled(t) ==
    /\ InFlight(t)
    /\ \E body \in Bodies(TopOf(tasks[t].stack).kind) :
          Commit(t, Run(interceptFulfilled(Cur(t), [status |-> 200, data |-> body])))
    /\ UNCHANGED ops

\* the call fails: a non-2xx status, or no response at all
responseRejected(t) ==
    /\ InFlight(t)
    /\ \E error \in AxiosErrors :
          Commit(t, Run(interceptRejected(Cur(t), error)))
    /\ UNCHANGED ops

----------------------------------------------------------------------------
(* The specification: one client, its calls made one after another *)

Clients == {"main"}
Tasks == {"t1"}

Init ==
    /\ now = 0
    /\ ticks = 0
    /\ authToken = [c \in Clients |-> NoToken]
    /\ sessionId = [c \in Clients |-> Undefined]
    /\ tasks = [t \in Tasks |-> IdleTask("main")]
    /\ observed = NotObserved
    /\ call = NoCall
    /\ ops = NoOps

Next ==
    \/ Tick
    \/ \E c \in DOMAIN authToken : CheckAuthenticated(c)
    \/ \E t \in DOMAIN tasks, c \in DOMAIN authToken : request(t, c) /\ UNCHANGED ops
    \/ \E t \in DOMAIN tasks, c \in DOMAIN authToken : login(t, c) /\ UNCHANGED ops
    \/ \E t \in DOMAIN tasks, c \in DOMAIN authToken : logout(t, c) /\ UNCHANGED ops
    \/ \E t \in DOMAIN tasks, c \in DOMAIN authToken : ping(t, c) /\ UNCHANGED ops
    \/ \E t \in DOMAIN tasks : responseFulfilled(t)
    \/ \E t \in DOMAIN tasks : responseRejected(t)

Spec == Init /\ [][Next]_vars

----------------------------------------------------------------------------
(* Vocabulary of the properties *)

Settled(t) == tasks[t].stack = <<>> /\ tasks[t].outcome # Pending
Resolved(t) == Settled(t) /\ tasks[t].outcome.state = "resolved"
Rejected(t) == Settled(t) /\ tasks[t].outcome.state = "rejected"

\* the positions of the events e about calls of the given kinds in a trace
Events(tr, e, kinds) == {i \in DOMAIN tr : tr[i].e = e /\ tr[i].kind \in kinds}

\* the answers the device gave to a task, in order
Answers(tr) == SelectSeq(tr, LAMBDA ev : ev.e = "recv")

\* the last answer was a 2xx response / its body
LastIsResponse(t) == tasks[t].last.type = "response"
LastBody(t) == tasks[t].last.response.data
\* the last answer was a failure / the AxiosError
LastIsError(t) == tasks[t].last.type = "error"
LastError(t) == tasks[t].last.error

----------------------------------------------------------------------------
(* C1: one request() starts at most one re-login for 401 answers to its
   feature call and dispatches the feature call at most twice, whatever the
   device answers. *)
C1_AtMostOneRelogin ==
    \A t \in DOMAIN tasks :
        tasks[t].op = "request" =>
            /\ Cardinality(Events(tasks[t].trace, "refresh", {"feature"})) <= 1
            /\ Cardinality(Sends(tasks[t].trace, {"feature"})) <= 2

----------------------------------------------------------------------------
(* C2: isAuthenticated() returns true if and only if a token is stored and
   its expiry is strictly later than the current time. *)
C2_IsAuthenticatedIff ==
    observed.called =>
        (observed.result <=>
            /\ authToken[observed.client].present
            /\ authToken[observed.client].expiresAt > now)

\* isAuthenticated() was read at the very instant of the expiry and was false
C2_Witness ==
    /\ observed.called
    /\ authToken[observed.client].present
    /\ authToken[observed.client].expiresAt = now
    /\ ~observed.result

----------------------------------------------------------------------------
(* C3: logout() always resolves to a success envelope, never rejects, and
   leaves no token and no session id stored, whether the logout call
   succeeds, gets an HTTP error or fails in the transport. *)
C3_LogoutClears ==
    \A t \in DOMAIN tasks :
        (tasks[t].op = "logout" /\ Settled(t)) =>
            /\ tasks[t].outcome.state = "resolved"
            /\ tasks[t].outcome.value = [success |-> TRUE]
            /\ ~authToken[tasks[t].client].present
            /\ sessionId[tasks[t].client] = Undefined

\* a logout whose call failed in the transport has settled
C3_Witness ==
    \E t \in DOMAIN tasks :
        /\ tasks[t].op = "logout" /\ Resolved(t)
        /\ LastIsError(t) /\ "code" \in DOMAIN LastError(t)
        /\ tasks[t].startAuth = "valid"
        /\ ~authToken[tasks[t].client].present

----------------------------------------------------------------------------
(* C4: every envelope an operation resolves to with success = false has no
   data and has an error. *)
C4_FailureEnvelopeHasNoData ==
    \A t \in DOMAIN tasks :
        (Resolved(t) /\ ~tasks[t].outcome.value.success) =>
            /\ "data" \notin DOMAIN tasks[t].outcome.value
            /\ "error" \in DOMAIN tasks[t].outcome.value

----------------------------------------------------------------------------
(* C5: a request made with a valid session whose feature call is answered
   401 once: after the re-login is answered OK the feature call is on the
   wire a second time, and when that one is answered 200 the request
   resolves to a success envelope with the data of that answer; two feature
   calls and one login call were issued, and none follows. *)
C5_Scenario(t) ==
    LET ans == Answers(tasks[t].trace)
    IN  /\ tasks[t].op = "request"
        /\ tasks[t].startAuth = "valid"
        /\ Len(ans) >= 2
        /\ ans[1] = Event("recv", "feature", "401")
        /\ ans[2] = Event("recv", "login", "200 OK")

C5_ReloginThenRetrySucceeds ==
    \A t \in DOMAIN tasks :
        C5_Scenario(t) =>
            LET ans == Answers(tasks[t].trace)
                twoAndOne ==
                    /\ Cardinality(Sends(tasks[t].trace, {"feature"})) = 2
                    /\ Cardinality(Sends(tasks[t].trace, {"login"})) = 1
            IN  /\ Len(ans) = 2 =>
                    /\ InFlight(t)
                    /\ TopOf(tasks[t].stack).kind = "feature"
                    /\ twoAndOne
                /\ (Len(ans) >= 3 /\ ans[3] = Event("recv", "feature", "200")) =>
                    /\ Len(ans) = 3
                    /\ Resolved(t)
                    /\ tasks[t].outcome.value =
                          [success |-> TRUE, data |-> LastBody(t), statusCode |-> 200]
                    /\ twoAndOne

\* the scenario has run to its end
C5_Witness ==
    \E t \in DOMAIN tasks :
        /\ C5_Scenario(t)
        /\ Len(Answers(tasks[t].trace)) = 3
        /\ Resolved(t)
        /\ tasks[t].outcome.value.success
        /\ tasks[t].outcome.value.data = [payload |-> "d2"]

----------------------------------------------------------------------------
(* C6: a request() that rejects has dispatched no feature call; once the
   feature call is dispatched, request() resolves, to a success envelope
   when the last answer is a 2xx answer to the feature call and otherwise to
   an envelope with success = false and an error message. *)
C6_RequestNeverRaisesAfterAuth ==
    \A t \in DOMAIN tasks :
        (tasks[t].op = "request" /\ Settled(t)) =>
            LET ans == Answers(tasks[t].trace)
                dispatched == Sends(tasks[t].trace, {"feature"}) # {}
                env == tasks[t].outcome.value
            IN  /\ Rejected(t) => ~dispatched
                /\ dispatched =>
                    /\ Resolved(t)
                    /\ IF ans[Len(ans)] = Event("recv", "feature", "200")
                       THEN env.success
                       ELSE /\ ~env.success
                            /\ "error" \in DOMAIN env
                            /\ Truthy(env.error)

\* a request whose feature call timed out has resolved to a failure envelope
C6_Witness ==
    \E t \in DOMAIN tasks :
        /\ tasks[t].op = "request" /\ Resolved(t)
        /\ Sends(tasks[t].trace, {"feature"}) # {}
        /\ LastIsError(t)
        /\ Field(LastError(t), "code") = "ECONNABORTED"
        /\ ~tasks[t].outcome.value.success

----------------------------------------------------------------------------
(* C7 *)

\* the failed call is login(), or a request() that failed in ensureAuthenticated()
LoginFailed(t) == tasks[t].op \in {"login", "request"} /\ Rejected(t)

\* the failure is that of a re-login started by the response interceptor
RefreshFailedLast(t) ==
    tasks[t].trace[Len(tasks[t].trace)].e = "refreshFailed"

\* the message the device supplied in its last answer, Undefined if none
DeviceMessage(t) ==
    IF LastIsResponse(t)
    THEN Field(LastBody(t), "message")
    ELSE IF "response" \in DOMAIN LastError(t)
    THEN Field(LastError(t).response.data, "message")
    ELSE Undefined

(* C7 as stated: whenever login does not succeed because the device answers
   with a non-OK status or an HTTP error or because the host is unreachable,
   login() and ensureAuthenticated() fail with an AuthenticationError, whose
   message is the device's when the device supplied one. *)
C7_AlwaysAuthenticationError ==
    \A t \in DOMAIN tasks :
        (LoginFailed(t) /\ ~(LastIsResponse(t) /\ "isNull" \in DOMAIN LastBody(t))) =>
            /\ tasks[t].outcome.error.name = "AuthenticationError"
            /\ (~RefreshFailedLast(t) /\ DeviceMessage(t) # Undefined) =>
                  tasks[t].outcome.error.message = DeviceMessage(t)

(* C7 as amended: whenever login does not succeed, login() and
   ensureAuthenticated() fail with a SunapiError classified by the cause: an
   AuthenticationError (status 401) when the device answers with a non-OK
   status or with HTTP 401 or when a re-login started by a 401 fails, a
   ConnectionError (status 0) when the host refuses the connection or is not
   found, and a plain SunapiError for any other HTTP status (which it
   carries), a timeout or a null body (no status); unless a re-login failed,
   the message is the device's when the device supplied one. *)
C7_LoginFailureClassified ==
    \A t \in DOMAIN tasks :
        LoginFailed(t) =>
            LET e == tasks[t].outcome.error
                byBody == /\ ~RefreshFailedLast(t) /\ LastIsResponse(t)
                          /\ "isNull" \notin DOMAIN LastBody(t)
                by401 == /\ ~RefreshFailedLast(t) /\ LastIsError(t)
                         /\ "response" \in DOMAIN LastError(t)
                         /\ LastError(t).response.status = 401
                unreachable == /\ ~RefreshFailedLast(t) /\ LastIsError(t)
                               /\ Field(LastError(t), "code") \in
                                     {"ECONNREFUSED", "ENOTFOUND"}
                otherStatus == /\ ~RefreshFailedLast(t) /\ LastIsError(t)
                               /\ "response" \in DOMAIN LastError(t)
                               /\ LastError(t).response.status # 401
            IN  /\ e.name \in {"AuthenticationError", "ConnectionError", "SunapiError"}
                /\ (e.name = "AuthenticationError")
                      <=> (RefreshFailedLast(t) \/ byBody \/ by401)
                /\ (e.name = "ConnectionError") <=> unreachable
                /\ e.name = "AuthenticationError" => e.statusCode = 401
                /\ e.name = "ConnectionError" => e.statusCode = 0
                /\ e.name = "SunapiError" =>
                      IF otherStatus
                      THEN e.statusCode = LastError(t).response.status
                      ELSE "statusCode" \notin DOMAIN e
                /\ byBody => LastBody(t).status # "OK"
                /\ (~RefreshFailedLast(t) /\ DeviceMessage(t) # Undefined) =>
                      e.message = DeviceMessage(t)

\* a login() has failed with a ConnectionError
C7_Witness ==
    \E t \in DOMAIN tasks :
        /\ tasks[t].op = "login" /\ Rejected(t)
        /\ tasks[t].outcome.error.name = "ConnectionError"
        /\ LastError(t).code = "ENOTFOUND"

----------------------------------------------------------------------------
(* C8 *)

\* login() has resolved; the body of the answer it stored is LastBody
LoggedIn(t) == tasks[t].op = "login" /\ Resolved(t)

(* C8 as stated: after login() succeeds the stored session holds the
   server's token and session id and an expiry equal to the login time plus
   the lifetime the server declared, in seconds, or plus 3600 seconds when
   it declared none; isAuthenticated() is then true until that expiry. *)
C8_StoresServerSession ==
    \A t \in DOMAIN tasks :
        LoggedIn(t) =>
            LET b == LastBody(t)
                c == tasks[t].client
                declared == IF "expires" \in DOMAIN b THEN b.expires ELSE 3600
                expiry == tasks[t].settledAt + declared * 1000
            IN  /\ authToken[c].present
                /\ authToken[c].token = b.token
                /\ authToken[c].sessionId = b.sessionId
                /\ sessionId[c] = b.sessionId
                /\ authToken[c].expiresAt = expiry
                /\ (observed.called /\ observed.client = c) =>
                      (observed.result <=> now < expiry)

(* C8 as amended: after login() succeeds the stored session holds the
   server's token, or the server's session id as the token when the server
   sent no token, and the session id, and an expiry equal to the login time
   plus the lifetime the server declared, in seconds, or plus 3600 seconds
   when it declared none or declared 0; isAuthenticated() is then true until
   that expiry. *)
C8_StoresSession ==
    \A t \in DOMAIN tasks :
        LoggedIn(t) =>
            LET b == LastBody(t)
                c == tasks[t].client
                declared == IF "expires" \in DOMAIN b /\ b.expires # 0
                            THEN b.expires ELSE 3600
                expiry == tasks[t].settledAt + declared * 1000
            IN  /\ authToken[c].present
                /\ authToken[c].token =
                      (IF b.token # Undefined THEN b.token ELSE b.sessionId)
                /\ authToken[c].sessionId = b.sessionId
                /\ sessionId[c] = b.sessionId
                /\ authToken[c].expiresAt = expiry
                /\ (observed.called /\ observed.client = c) =>
                      (observed.result <=> now < expiry)

\* a login at a later time stored the default lifetime, and isAuthenticated()
\* was read as false when that expiry was reached
C8_Witness ==
    \E t \in DOMAIN tasks :
        /\ LoggedIn(t)
        /\ "expires" \notin DOMAIN LastBody(t)
        /\ tasks[t].settledAt > 0
        /\ authToken[tasks[t].client].expiresAt = tasks[t].settledAt + 3600000
        /\ now = authToken[tasks[t].client].expiresAt
        /\ observed.called /\ ~observed.result

----------------------------------------------------------------------------
(* C9: when the re-login started by a 401 answer to the feature call of a
   request() fails, for whatever reason, the feature call is not dispatched
   again and request() resolves to an envelope with success = false and
   statusCode 401. *)
C9_FailedReloginSurfaces401 ==
    \A t \in DOMAIN tasks :
        tasks[t].op = "request" =>
            \A i \in Events(tasks[t].trace, "refreshFailed", {"feature"}) :
                /\ \A j \in DOMAIN tasks[t].trace :
                      j > i => tasks[t].trace[j].e \notin {"send", "retry"}
                /\ Resolved(t)
                /\ ~tasks[t].outcome.value.success
                /\ "statusCode" \in DOMAIN tasks[t].outcome.value
                /\ tasks[t].outcome.value.statusCode = 401
                /\ "data" \notin DOMAIN tasks[t].outcome.value

\* a re-login that was answered with HTTP 500 made the request fail with 401
C9_Witness ==
    \E t \in DOMAIN tasks :
        /\ tasks[t].op = "request" /\ Resolved(t)
        /\ Events(tasks[t].trace, "refreshFailed", {"feature"}) # {}
        /\ LastIsError(t)
        /\ "response" \in DOMAIN LastError(t)
        /\ LastError(t).response.status = 500
        /\ tasks[t].outcome.value.statusCode = 401

----------------------------------------------------------------------------
(* C10: request() dispatches the feature call only after
   ensureAuthenticated(): without a valid session exactly one login call
   precedes the feature call, and no feature call is dispatched when
   request() rejects; with a valid session no login call precedes the
   feature call. *)
C10_OneLoginBeforeFeature ==
    \A t \in DOMAIN tasks :
        tasks[t].op = "request" =>
            LET tr == tasks[t].trace
                feature == Sends(tr, {"feature"})
                loginsBefore ==
                    {i \in Sends(tr, {"login"}) : \A j \in feature : i < j}
            IN  /\ Rejected(t) => feature = {}
                /\ feature # {} =>
                      Cardinality(loginsBefore) =
                          (IF tasks[t].startAuth = "valid" THEN 0 ELSE 1)

----------------------------------------------------------------------------
(* C11 *)

\* the last answer to a call of the task was a refused connection or a host
\* that was not found
ConnectionFailedLast(t) ==
    /\ LastIsError(t)
    /\ Field(LastError(t), "code") \in {"ECONNREFUSED", "ENOTFOUND"}

\* the kind of the call that was answered last
LastAnswered(t) ==
    LET ans == Answers(tasks[t].trace) IN ans[Len(ans)].kind

\* nothing is dispatched, re-logged-in or retried after the last answer
NothingAfterLastAnswer(t) ==
    LET tr == tasks[t].trace
        recvs == Events(tr, "recv", AllKinds)
    IN  \A i \in DOMAIN tr :
           (\A j \in recvs : j < i) => tr[i].e \notin {"send", "refresh", "retry"}

(* C11 as stated: when the only HTTP call a request() has issued fails at
   the connection level (refused, or host not found), whether or not a
   session existed when request() was called, no re-login and no retry
   follows and request() resolves to an envelope with success = false and
   statusCode 0. *)
C11_ConnectionFailureEnvelope ==
    \A t \in DOMAIN tasks :
        (/\ tasks[t].op = "request"
         /\ ConnectionFailedLast(t)
         /\ Cardinality(Sends(tasks[t].trace, AllKinds)) = 1) =>
            /\ NothingAfterLastAnswer(t)
            /\ Resolved(t)
            /\ ~tasks[t].outcome.value.success
            /\ "statusCode" \in DOMAIN tasks[t].outcome.value
            /\ tasks[t].outcome.value.statusCode = 0

(* C11 as amended: a connection-level failure (refused, or host not found)
   of a call that request() dispatched, with or without a session, ends the
   request: no re-login, no retry and no further call follows.  When the
   failed call is the feature call, request() resolves to an envelope with
   success = false and statusCode 0; when it is the login call of
   ensureAuthenticated(), request() rejects with a ConnectionError of
   statusCode 0; when it is the login call of a re-login started by a 401,
   the failure surfaces with status 401 (in the envelope, or as an
   AuthenticationError). *)
C11_ConnectionFailureClassified ==
    \A t \in DOMAIN tasks :
        (tasks[t].op = "request" /\ ConnectionFailedLast(t)) =>
            /\ Settled(t)
            /\ NothingAfterLastAnswer(t)
            /\ IF RefreshFailedLast(t)
               THEN /\ Resolved(t) =>
                         /\ ~tasks[t].outcome.value.success
                         /\ "statusCode" \in DOMAIN tasks[t].outcome.value
                         /\ tasks[t].outcome.value.statusCode = 401
                    /\ Rejected(t) =>
                         tasks[t].outcome.error.name = "AuthenticationError"
               ELSE IF LastAnswered(t) = "feature"
               THEN /\ Resolved(t)
                    /\ ~tasks[t].outcome.value.success
                    /\ "statusCode" \in DOMAIN tasks[t].outcome.value
                    /\ tasks[t].outcome.value.statusCode = 0
               ELSE /\ LastAnswered(t) = "login"
                    /\ Rejected(t)
                    /\ tasks[t].outcome.error.name = "ConnectionError"
                    /\ tasks[t].outcome.error.statusCode = 0

\* a request made with a valid session whose only call, the feature call, was
\* refused has resolved to an envelope with statusCode 0
C11_Witness ==
    \E t \in DOMAIN tasks :
        /\ tasks[t].op = "request" /\ Resolved(t)
        /\ tasks[t].startAuth = "valid"
        /\ ConnectionFailedLast(t)
        /\ LastError(t).code = "ECONNREFUSED"
        /\ Cardinality(Sends(tasks[t].trace, AllKinds)) = 1
        /\ tasks[t].outcome.value.statusCode = 0

----------------------------------------------------------------------------
(* handleError() applied on its own *)

\* the failures the classifier can be given: an AxiosError with a response of
\* a non-2xx status (axios sets a code on these, too), an AxiosError without
\* a response, and an error that is no AxiosError
ClassifierErrors ==
    {[message |-> "Request failed", code |-> cd,
      response |-> [status |-> st, data |-> body]] :
        cd \in {"ERR_BAD_REQUEST", "ERR_BAD_RESPONSE"},
        st \in {400, Unauthorized, 403, 404, 500, 503},
        body \in {[message |-> "device message"], [detail |-> "none"], NullBody}}
    \cup
    {[message |-> m, code |-> cd] :
        m \in {"network failure", "timeout of 30000ms exceeded"},
        cd \in {"ECONNREFUSED", "ENOTFOUND", "ECONNABORTED", "ETIMEDOUT", "ERR_NETWORK"}}
    \cup
    {[message |-> "TypeError"]}

\* the sessions a client can hold when a failure is classified
ClassifierSessions ==
    {[tok |-> NoToken, sid |-> Undefined],
     [tok |-> newAuthToken([status |-> "OK", token |-> "tokA", sessionId |-> "sidA"], 0),
      sid |-> "sidA"]}

InitHandleError ==
    /\ now = 0
    /\ ticks = 0
    /\ \E s \in ClassifierSessions :
          /\ authToken = [c \in Clients |-> s.tok]
          /\ sessionId = [c \in Clients |-> s.sid]
    /\ tasks = [t \in Tasks |-> IdleTask("main")]
    /\ observed = NotObserved
    /\ \E error \in ClassifierErrors :
          call = [fn |-> "handleError", stage |-> "raised", error |-> error,
                  before |-> [tok |-> authToken["main"], sid |-> sessionId["main"]]]
    /\ ops = NoOps

\* this.handleError(error): the error is classified; no field of the client
\* is assigned
classify ==
    /\ call.fn = "handleError" /\ call.stage = "raised"
    /\ call' = [fn |-> "handleError", stage |-> "classified", error |-> call.error,
                before |-> call.before, result |-> handleError(call.error)]
    /\ UNCHANGED <<now, ticks, authToken, sessionId, tasks, observed, ops>>

\* the catch branch of request() builds the envelope of the classified error
envelope ==
    /\ call.fn = "handleError" /\ call.stage = "classified"
    /\ call' = [fn |-> "handleError", stage |-> "enveloped", error |-> call.error,
                before |-> call.before, result |-> call.result,
                envelope |-> errorEnvelope(call.result)]
    /\ UNCHANGED <<now, ticks, authToken, sessionId, tasks, observed, ops>>

NextHandleError == classify \/ envelope

SpecHandleError == InitHandleError /\ [][NextHandleError]_vars

----------------------------------------------------------------------------
(* C12 *)

\* the failure has been classified
Classified == call.fn = "handleError" /\ call.stage \in {"classified", "enveloped"}

\* the network error code and the HTTP status of the failure, if any
CodeOf(error) == Field(error, "code")
HasStatus(error) == "response" \in DOMAIN error

\* classification has left the client's session as it was
ClassifierIsPure ==
    /\ authToken["main"] = call.before.tok
    /\ sessionId["main"] = call.before.sid

(* C12 as stated: the classifier maps every failure to exactly one of
   ConnectionError (statusCode 0), AuthenticationError (statusCode 401) and
   the generic error with the status of the response as its statusCode, so
   the envelope built from a classified error carries a statusCode; and
   classification changes no client state. *)
C12_EveryFailureHasStatusCode ==
    Classified =>
        /\ call.result.name \in {"ConnectionError", "AuthenticationError", "SunapiError"}
        /\ "statusCode" \in DOMAIN call.result
        /\ call.stage = "enveloped" => "statusCode" \in DOMAIN call.envelope
        /\ ClassifierIsPure

(* C12 as amended: the classifier maps a failure to exactly one of
   ConnectionError with statusCode 0 (network code ECONNREFUSED or
   ENOTFOUND), AuthenticationError with statusCode 401 (a response with
   status 401), the generic error with the status of the response as its
   statusCode (any other response), and, for a failure without a response
   and with another network code or none (a timeout, for one), the generic
   error without a statusCode; the envelope built from the error carries the
   statusCode of the error, and none in the last case.  The class and the
   statusCode depend only on the network code and the status of the
   failure, and classification changes no client state. *)
C12_ClassifiedByCodeAndStatus ==
    Classified =>
        LET error == call.error
            e == call.result
        IN  /\ IF CodeOf(error) \in {"ECONNREFUSED", "ENOTFOUND"}
               THEN e.name = "ConnectionError" /\ e.statusCode = 0
               ELSE IF HasStatus(error) /\ error.response.status = 401
               THEN e.name = "AuthenticationError" /\ e.statusCode = 401
               ELSE IF HasStatus(error)
               THEN e.name = "SunapiError" /\ e.statusCode = error.response.status
               ELSE e.name = "SunapiError" /\ "statusCode" \notin DOMAIN e
            /\ call.stage = "enveloped" =>
                  /\ ~call.envelope.success
                  /\ ("statusCode" \in DOMAIN call.envelope)
                        <=> ("statusCode" \in DOMAIN e)
                  /\ "statusCode" \in DOMAIN e =>
                        call.envelope.statusCode = e.statusCode
            /\ ClassifierIsPure

\* a timeout has been classified and its envelope built, while a session
\* was stored
C12_Witness ==
    /\ call.fn = "handleError" /\ call.stage = "enveloped"
    /\ CodeOf(call.error) = "ETIMEDOUT"
    /\ call.before.tok.present
    /\ call.result.name = "SunapiError"

----------------------------------------------------------------------------
(* A Sunapi instance with its five modules *)

\* calls of connect(), of disconnect() and of methods of the modules in one
\* behaviour
MaxOps == 2
\* calls of methods of the modules among them
MaxModuleOps == 1

SunapiClients == {"main"} \cup Modules

\* one more call of the facade, or of a module, is made
Counted(who, max) ==
    /\ ops.facade + ops.module < MaxOps
    /\ ops[who] < max
    /\ ops' = [ops EXCEPT ![who] = @ + 1]

\* Sunapi.connect(): await this.login()
connect(t) ==
    /\ Free(t)
    /\ Counted("facade", MaxOps)
    /\ Commit(t, Run(CallLogin(Begin("main", "connect",
                                     <<Frame("connect", "-", "-", NoHdr)>>))))

\* Sunapi.disconnect(): await this.logout(), which returns at once without
\* a token
disconnect(t) ==
    /\ Free(t)
    /\ Counted("facade", MaxOps)
    /\ Commit(t, Run(
          IF ~authToken["main"].present
          THEN [Begin("main", "disconnect", <<Frame("disconnect", "-", "-", NoHdr)>>)
                  EXCEPT !.sig = Value([success |-> TRUE])]
          ELSE Dispatch(Begin("main", "disconnect",
                              <<Frame("disconnect", "-", "-", NoHdr),
                                Frame("logout", "-", "-", NoHdr)>>),
                        "logout", NoHdr)))

\* a method of a module: a request() of the module's own client
moduleRequest(t, m) ==
    /\ Counted("module", MaxModuleOps)
    /\ request(t, m)

\* login() and logout() of a module's own client
moduleLogin(t, m) ==
    /\ Counted("module", MaxModuleOps)
    /\ login(t, m)

moduleLogout(t, m) ==
    /\ Counted("module", MaxModuleOps)
    /\ logout(t, m)

\* the methods the Sunapi instance inherits from SunapiClient, called on the
\* instance itself
inherited(t) ==
    /\ Counted("module", MaxModuleOps)
    /\ \/ request(t, "main")
       \/ login(t, "main")
       \/ logout(t, "main")

InitSunapi ==
    /\ now = 0
    /\ ticks = 0
    /\ authToken = [c \in SunapiClients |-> NoToken]
    /\ sessionId = [c \in SunapiClients |-> Undefined]
    /\ tasks = [t \in Tasks |-> IdleTask("main")]
    /\ observed = NotObserved
    /\ call = NoCall
    /\ ops = NoOps

NextSunapi ==
    \/ Tick
    \/ \E t \in DOMAIN tasks : connect(t)
    \/ \E t \in DOMAIN tasks : disconnect(t)
    \/ \E t \in DOMAIN tasks, m \in Modules : moduleRequest(t, m)
    \/ \E t \in DOMAIN tasks, m \in Modules : moduleLogin(t, m)
    \/ \E t \in DOMAIN tasks, m \in Modules : moduleLogout(t, m)
    \/ \E t \in DOMAIN tasks : inherited(t)
    \/ \E t \in DOMAIN tasks : responseFulfilled(t)
    \/ \E t \in DOMAIN tasks : responseRejected(t)

SpecSunapi == InitSunapi /\ [][NextSunapi]_vars

----------------------------------------------------------------------------
(* C13 *)

\* connect() has resolved and the clock has not advanced since
JustConnected(t) ==
    /\ tasks[t].op = "connect" /\ Resolved(t)
    /\ now = tasks[t].settledAt

(* C13: after connect() resolves, for every successful login response that
   carries a token, with or without a session id, the client is
   authenticated and so is each of the five modules (so that a module's
   first request needs no login of its own). *)
C13_ConnectSharesSession ==
    \A t \in DOMAIN tasks :
        (JustConnected(t) /\ Truthy(authToken["main"].token)) =>
            /\ isAuthenticated("main")
            /\ \A m \in Modules : isAuthenticated(m)

----------------------------------------------------------------------------
(* C14: after disconnect() completes, neither the client nor any of its
   five modules holds a token or a session id, so none is authenticated;
   and disconnect() never rejects, whatever the device answers to the logout
   call. *)
C14_DisconnectClearsEverywhere ==
    \A t \in DOMAIN tasks :
        (tasks[t].op = "disconnect" /\ Settled(t)) =>
            /\ Resolved(t)
            /\ \A c \in DOMAIN authToken :
                  /\ ~authToken[c].present
                  /\ sessionId[c] = Undefined
                  /\ ~isAuthenticated(c)

\* a disconnect() of a client with a valid session, whose logout call was
\* refused, has resolved
C14_Witness ==
    \E t \in DOMAIN tasks :
        /\ tasks[t].op = "disconnect" /\ Resolved(t)
        /\ tasks[t].startAuth = "valid"
        /\ LastIsError(t)
        /\ Field(LastError(t), "code") = "ECONNREFUSED"

----------------------------------------------------------------------------
(* C15 *)

\* a step in which a connect() rejects
ConnectRejects(t) ==
    /\ tasks'[t].op = "connect"
    /\ tasks'[t].stack = <<>>
    /\ tasks'[t].outcome # Pending
    /\ tasks'[t].outcome.state = "rejected"
    /\ tasks[t] # tasks'[t]

\* a connect() that rejects leaves the session of every module as it was
C15_ModulesUntouched ==
    [][\A t \in DOMAIN tasks :
          ConnectRejects(t) =>
             \A m \in Modules : /\ authToken'[m] = authToken[m]
                                /\ sessionId'[m] = sessionId[m]]_vars

(* C15: when connect() rejects because the login did not succeed, a client
   that was not authenticated when connect() was called is not
   authenticated afterwards. *)
C15_FailedConnectLeavesClientUnauthenticated ==
    \A t \in DOMAIN tasks :
        (/\ tasks[t].op = "connect" /\ Rejected(t)
         /\ tasks[t].startAuth # "valid"
         /\ now = tasks[t].settledAt) =>
            ~isAuthenticated("main")

----------------------------------------------------------------------------
(* The feature modules: a method awaits this.get(...) and normalizes the
   envelope it returns.

   Device payloads.  A JSON object is a record, a missing key a key that is
   not in its domain; a JSON array a is [array |-> a]; an empty or null body
   is NullBody.  The values of the fields are strings (devices send numbers
   and switches as text), JsTrue stands for the boolean true, and uptime is
   a number.  A field that holds embedded JSON is [str |-> text]. *)

\* items of an array payload
MaxItems == 2
\* the numbers a device sends as text
MaxNumber == 3

\* the boolean true as the value of a field
JsTrue == "<true>"

\* NaN, the result of parseInt on text that is no number
NaN == -1

\* parseInt(s): the number whose decimal text s is, NaN otherwise
ParseInt(s) ==
    IF \E n \in 0..MaxNumber : ToString(n) = s
    THEN CHOOSE n \in 0..MaxNumber : ToString(n) = s
    ELSE NaN

\* a || b on numbers: NaN and 0 are falsy
IntOr(a, b) == IF a = NaN \/ a = 0 THEN b ELSE a

\* data.f === 'on' || data.f === true
IsOn(v) == v = "on" \/ v = JsTrue

\* Array.isArray(data)
IsArray(data) == "array" \in DOMAIN data

\* response.data as a condition: an object or an array is truthy, an empty
\* or null body is not
TruthyData(data) == "isNull" \notin DOMAIN data

\* what a synchronous call produces: a value, or a thrown error
Ok(v) == [ok |-> TRUE, v |-> v]
Thrown(err) == [ok |-> FALSE, err |-> err]
TypeError == [name |-> "TypeError", message |-> "Cannot read properties of undefined"]

\* JSON.parse(text), for the texts a device sends
JsonParse(text) ==
    CASE text = "[{\"type\":\"motion\"}]" -> Ok([array |-> <<[type |-> "motion"]>>])
      [] text = "[]" -> Ok([array |-> <<>>])
      [] text = "{}" -> Ok([object |-> TRUE])
      [] OTHER -> Thrown([name |-> "SyntaxError", message |-> "Unexpected token"])

\* parseConditions(conditions) and parseActions(actions), which differ in
\* the default of type
parseEmbedded(raw, defaultType) ==
    LET parsed == IF "str" \in DOMAIN raw THEN JsonParse(raw.str) ELSE Ok(raw)
    IN  IF ~parsed.ok THEN <<>>
        ELSE IF ~IsArray(parsed.v) THEN <<>>
        ELSE [i \in DOMAIN parsed.v.array |->
                [type |-> OrElse(Field(parsed.v.array[i], "type"), defaultType),
                 parameters |-> IF "parameters" \in DOMAIN parsed.v.array[i]
                                THEN parsed.v.array[i].parameters
                                ELSE [empty |-> TRUE]]]

\* data.f for a field that holds embedded JSON: undefined is neither a
\* string nor an array
EmbeddedField(data, f) == IF f \in DOMAIN data THEN data[f] ELSE [undefined |-> TRUE]

parseVideoChannel(data) ==
    [channelId |-> IntOr(ParseInt(Field(data, "channelId")),
                         IntOr(ParseInt(Field(data, "channel")), 0)),
     name |-> OrElse(Field(data, "name"),
                     "Channel " \o OrElse(Field(data, "channelId"), Field(data, "channel"))),
     enabled |-> IsOn(Field(data, "enabled")),
     codec |-> OrElse(Field(data, "codec"), "H.264"),
     resolution |-> OrElse(Field(data, "resolution"), "1920x1080"),
     framerate |-> IntOr(ParseInt(Field(data, "framerate")), 30),
     bitrate |-> IntOr(ParseInt(Field(data, "bitrate")), 2000),
     quality |-> OrElse(Field(data, "quality"), "high")]

parseAudioChannel(data) ==
    [channelId |-> IntOr(ParseInt(Field(data, "channelId")),
                         IntOr(ParseInt(Field(data, "channel")), 0)),
     enabled |-> IsOn(Field(data, "enabled")),
     codec |-> OrElse(Field(data, "codec"), "AAC"),
     bitrate |-> IntOr(ParseInt(Field(data, "bitrate")), 128),
     sampleRate |-> IntOr(ParseInt(Field(data, "sampleRate")), 48000)]

\* parseStreamProfile reads this.parseVideoChannel; the profiles modelled
\* carry no audio and no nested video object
parseStreamProfile(data) ==
    [profileId |-> IntOr(ParseInt(Field(data, "profileId")),
                         IntOr(ParseInt(Field(data, "profile")), 0)),
     name |-> OrElse(Field(data, "name"),
                     "Profile " \o OrElse(Field(data, "profileId"), Field(data, "profile"))),
     video |-> parseVideoChannel(data),
     audio |-> Undefined]

\* parseEventRule reads this.parseConditions and this.parseActions
parseEventRule(data) ==
    [ruleId |-> IntOr(ParseInt(Field(data, "ruleId")),
                      IntOr(ParseInt(Field(data, "rule")), 0)),
     name |-> OrElse(Field(data, "name"),
                     "Rule " \o OrElse(Field(data, "ruleId"), Field(data, "rule"))),
     enabled |-> IsOn(Field(data, "enabled")),
     type |-> OrElse(Field(data, "type"), "motion"),
     conditions |-> parseEmbedded(EmbeddedField(data, "conditions"), ""),
     actions |-> parseEmbedded(EmbeddedField(data, "actions"), "notification")]

\* channelId is undefined (hasChannelId false) when the log names no channel
parseEventLog(data) ==
    [eventId |-> OrElse(Field(data, "eventId"), OrElse(Field(data, "id"), "")),
     timestamp |-> [date |-> OrElse(Field(data, "timestamp"), Field(data, "time"))],
     type |-> OrElse(Field(data, "type"), "motion"),
     channelId |-> IF Truthy(Field(data, "channelId"))
                   THEN ParseInt(data.channelId) ELSE NaN,
     hasChannelId |-> Truthy(Field(data, "channelId")),
     description |-> OrElse(Field(data, "description"),
                            OrElse(Field(data, "message"), "")),
     severity |-> OrElse(Field(data, "severity"), "medium")]

\* parseFloat, on the whole numbers a device sends as text
parsePtzPreset(data) ==
    [presetId |-> IntOr(ParseInt(Field(data, "presetId")),
                        IntOr(ParseInt(Field(data, "preset")), 0)),
     name |-> OrElse(Field(data, "name"),
                     "Preset " \o OrElse(Field(data, "presetId"), Field(data, "preset"))),
     position |-> [pan |-> IntOr(ParseInt(Field(data, "pan")), 0),
                   tilt |-> IntOr(ParseInt(Field(data, "tilt")), 0),
                   zoom |-> IntOr(ParseInt(Field(data, "zoom")), 0)]]

parseRecordingFile(data) ==
    [fileId |-> OrElse(Field(data, "fileId"), OrElse(Field(data, "id"), "")),
     channelId |-> IntOr(ParseInt(Field(data, "channelId")),
                         IntOr(ParseInt(Field(data, "channel")), 0)),
     startTime |-> [date |-> OrElse(Field(data, "startTime"), Field(data, "start"))],
     endTime |-> [date |-> OrElse(Field(data, "endTime"), Field(data, "end"))],
     size |-> IntOr(ParseInt(Field(data, "size")), 0),
     recordingType |-> OrElse(Field(data, "recordingType"), "continuous"),
     eventType |-> Field(data, "eventType")]

\* the arrow function of getRecordingStatus
parseRecordingStatus(data) ==
    [channelId |-> IntOr(ParseInt(Field(data, "channelId")),
                         IntOr(ParseInt(Field(data, "channel")), 0)),
     recording |-> IsOn(Field(data, "recording"))]

\* the list methods, each with the function it maps over the items
ListOps ==
    {"getVideoChannels", "getAudioChannels", "getStreamProfiles", "getEventRules",
     "getEventLogs", "getPtzPresets", "searchRecordings", "getRecordingStatus"}

\* the methods that normalize one object
SingleOps == {"getEventRule", "getDeviceInfo"}

\* the functions that read a property of `this`
ReadsThis(op) == op \in {"getStreamProfiles", "getEventRules", "getEventRule"}

\* the normalizer of a method applied to one raw object, with the value of
\* `this` it is called with: reading a property of an undefined `this`
\* throws a TypeError
Parse(op, this, data) ==
    IF ReadsThis(op) /\ this = Undefined THEN Thrown(TypeError)
    ELSE Ok(CASE op = "getVideoChannels" -> parseVideoChannel(data)
              [] op = "getAudioChannels" -> parseAudioChannel(data)
              [] op = "getStreamProfiles" -> parseStreamProfile(data)
              [] op \in {"getEventRules", "getEventRule"} -> parseEventRule(data)
              [] op = "getEventLogs" -> parseEventLog(data)
              [] op = "getPtzPresets" -> parsePtzPreset(data)
              [] op = "searchRecordings" -> parseRecordingFile(data)
              [] op = "getRecordingStatus" -> parseRecordingStatus(data))

\* items.map(f): f is called with `this` undefined for a method reference
\* (items.map(this.parseX)) and throws what f throws
Map(op, this, items) ==
    LET rs == [i \in DOMAIN items |-> Parse(op, this, items[i])]
    IN  IF \E i \in DOMAIN items : ~rs[i].ok
        THEN Thrown(TypeError)
        ELSE Ok([i \in DOMAIN items |-> rs[i].v])

\* a faulty variant of AsArray: an object that is no array gives no items
AsArrayNoWrap(data) == IF IsArray(data) THEN data.array ELSE <<>>

\* Array.isArray(response.data) ? response.data : [response.data]
AsArray(data) == IF IsArray(data) THEN data.array ELSE <<data>>

\* what an async method settles to
Resolve(v) == [state |-> "resolved", value |-> v]
Reject(err) == [state |-> "rejected", error |-> err]

\* a list method, after this.get() returned `response`
listMethod(op, response) ==
    IF response.success /\ TruthyData(response.data)
    THEN LET mapped == Map(op, Undefined, AsArray(response.data))
         IN  IF mapped.ok
             THEN Resolve([success |-> TRUE, data |-> [array |-> mapped.v],
                           statusCode |-> response.statusCode])
             ELSE Reject(mapped.err)
    ELSE Resolve(response)

\* getEventRule(ruleId), after this.get() returned `response`
getEventRule(response) ==
    IF response.success /\ TruthyData(response.data)
    THEN Resolve([success |-> TRUE,
                  data |-> Parse("getEventRule", "EventModule", response.data).v,
                  statusCode |-> response.statusCode])
    ELSE Resolve(response)

\* a faulty variant of FirstOf: the second key has priority
FirstOfReversed(data, first, second, default) ==
    OrElse(Field(data, second), OrElse(Field(data, first), default))

\* data.first || data.second || default
FirstOf(data, first, second, default) ==
    OrElse(Field(data, first), OrElse(Field(data, second), default))

\* getDeviceInfo(), after this.get() returned `response`
getDeviceInfo(response) ==
    IF response.success /\ TruthyData(response.data)
    THEN LET data == response.data
         IN  Resolve([success |-> TRUE,
                      data |-> [deviceName |-> FirstOf(data, "deviceName", "name", "Unknown"),
                                model |-> FirstOf(data, "model", "deviceModel", "Unknown"),
                                serialNumber |->
                                    FirstOf(data, "serialNumber", "serial", "Unknown"),
                                firmwareVersion |->
                                    FirstOf(data, "firmwareVersion", "version", "Unknown"),
                                macAddress |-> FirstOf(data, "macAddress", "mac", "Unknown"),
                                uptime |-> IF "uptime" \in DOMAIN data
                                           THEN IntOr(data.uptime, 0) ELSE 0,
                                temperature |-> Field(data, "temperature"),
                                fanStatus |-> Field(data, "fanStatus")],
                      statusCode |-> response.statusCode])
    ELSE Resolve(response)

\* the method `op`, after this.get() returned `response`
moduleMethod(op, response) ==
    CASE op \in ListOps -> listMethod(op, response)
      [] op = "getEventRule" -> getEventRule(response)
      [] op = "getDeviceInfo" -> getDeviceInfo(response)

\* the success envelope of request()
successEnvelope(response) ==
    [success |-> TRUE, data |-> response.data, statusCode |-> response.status]

----------------------------------------------------------------------------
(* A method of a module applied to an answer of the device *)

\* the keys of `full` in ks: an object that has only these keys
Object(full, ks) == [k \in ks |-> full[k]]

\* a body that reports an error status in a 2xx response
ErrorStatusBody ==
    [Response |-> [ResponseStatus |-> [status |-> "ERROR", errorcode |-> "500",
                                       text |-> "Internal server error"]]]

\* raw event rules: conditions and actions absent, text that is no JSON,
\* JSON text, or an array
RawEventRules ==
    {Object([ruleId |-> "1", name |-> "Motion", enabled |-> "on", type |-> "motion",
             conditions |-> c, actions |-> a], ks) :
        c \in {[str |-> "not json"], [str |-> "[{\"type\":\"motion\"}]"],
               [array |-> <<[type |-> "motion"]>>]},
        a \in {[str |-> "not json"], [array |-> <<[type |-> "email"]>>]},
        ks \in {{"ruleId", "name", "enabled", "type", "conditions", "actions"},
                {"ruleId", "conditions"}, {"ruleId", "actions"}}}

\* raw objects of the other lists: one with the first names of the fields,
\* one with the alternate names and defaults
RawItems(op) ==
    CASE op \in {"getVideoChannels", "getAudioChannels"} ->
            {[channelId |-> "1", name |-> "Front", enabled |-> "on", codec |-> "H.265",
              framerate |-> "3", bitrate |-> "abc"],
             [channel |-> "2", enabled |-> JsTrue]}
      [] op = "getStreamProfiles" ->
            {[profileId |-> "1", name |-> "Main", codec |-> "H.265"], [profile |-> "2"]}
      [] op \in {"getEventRules", "getEventRule"} -> RawEventRules
      [] op = "getEventLogs" ->
            {[eventId |-> "e1", timestamp |-> "2024-01-01T00:00:00Z", channelId |-> "1",
              description |-> "moved"],
             [id |-> "e2", time |-> "2024-01-02T00:00:00Z", message |-> "alarm"]}
      [] op = "getPtzPresets" ->
            {[presetId |-> "1", name |-> "Gate", pan |-> "2", tilt |-> "3"],
             [preset |-> "2"]}
      [] op = "searchRecordings" ->
            {[fileId |-> "f1", channelId |-> "1", startTime |-> "t0", endTime |-> "t1",
              size |-> "3", eventType |-> "motion"],
             [id |-> "f2", channel |-> "2", start |-> "t2", end |-> "t3"]}
      [] op = "getRecordingStatus" ->
            {[channelId |-> "1", recording |-> "on"], [channel |-> "2", recording |-> "off"]}

\* raw device-info payloads: each of the two names of a field absent, empty
\* or set
DeviceInfoPayloads ==
    {Object([deviceName |-> dn, name |-> nm, model |-> "X1", deviceModel |-> "X2",
             serialNumber |-> "S1", serial |-> "S2", version |-> "1.0", mac |-> "aa:bb",
             uptime |-> up], ks) :
        dn \in {"", "Cam1"}, nm \in {"", "Cam2"}, up \in {0, 5},
        ks \in {{}, {"deviceName", "model"}, {"deviceName", "name"},
                {"name", "deviceModel", "serial", "version", "mac", "uptime"},
                {"deviceName", "name", "model", "deviceModel", "serialNumber", "serial"}}}

\* the arrays of at most MaxItems of the raw objects
Arrays(items) ==
    UNION {[1..n -> items] : n \in 0..MaxItems}

\* the bodies of a 2xx answer to the call of a method
Payloads(op) ==
    (IF op = "getDeviceInfo" THEN DeviceInfoPayloads
     ELSE IF op = "getEventRule" THEN RawItems(op)
     ELSE RawItems(op) \cup {[array |-> a] : a \in Arrays(RawItems(op))})
    \cup {ErrorStatusBody, NullBody}

\* the failures of the call of a method
ModuleFailures ==
    {[message |-> "Request failed",
      response |-> [status |-> 500, data |-> [message |-> "device message"]]],
     [message |-> "network failure", code |-> "ECONNREFUSED"],
     [message |-> "timeout of 30000ms exceeded", code |-> "ECONNABORTED"]}

\* a method has been called, the client being authenticated, and the device
\* has answered its call
InitModules ==
    /\ now = 0
    /\ ticks = 0
    /\ authToken = [c \in Clients |->
                      newAuthToken([status |-> "OK", token |-> "tokA",
                                    sessionId |-> "sidA"], 0)]
    /\ sessionId = [c \in Clients |-> "sidA"]
    /\ tasks = [t \in Tasks |-> IdleTask("main")]
    /\ observed = NotObserved
    /\ ops = NoOps
    /\ \E op \in ListOps \cup SingleOps :
          \/ \E body \in Payloads(op) :
                call = [fn |-> op, stage |-> "answered",
                        answer |-> [type |-> "response",
                                    response |-> [status |-> 200, data |-> body]]]
          \/ \E error \in ModuleFailures :
                call = [fn |-> op, stage |-> "answered",
                        answer |-> [type |-> "error", error |-> error]]

\* request() returns its envelope to the method
requestReturns ==
    /\ call.fn \in ListOps \cup SingleOps /\ call.stage = "answered"
    /\ call' = [fn |-> call.fn, stage |-> "returned", answer |-> call.answer,
                response |-> IF call.answer.type = "response"
                             THEN successEnvelope(call.answer.response)
                             ELSE errorEnvelope(handleError(call.answer.error))]
    /\ UNCHANGED <<now, ticks, authToken, sessionId, tasks, observed, ops>>

\* the method normalizes the envelope and settles
methodSettles ==
    /\ call.fn \in ListOps \cup SingleOps /\ call.stage = "returned"
    /\ call' = [fn |-> call.fn, stage |-> "settled", answer |-> call.answer,
                response |-> call.response,
                result |-> moduleMethod(call.fn, call.response)]
    /\ UNCHANGED <<now, ticks, authToken, sessionId, tasks, observed, ops>>

\* the methods that the subcommands info, channels, recordings and events of
\* the command-line tool run
CliOps == {"getDeviceInfo", "getVideoChannels", "searchRecordings", "getEventLogs"}

\* the action of a subcommand, after the method returned the envelope `info`: the data
\* goes to standard output, or the error to standard error; process.exit is
\* not called and process.exitCode is not set, so the process ends with
\* status 0
cliAction(info) ==
    [stream |-> IF info.success THEN "stdout" ELSE "stderr", exitCode |-> 0]

\* the subcommand prints the outcome, disconnects, and the process exits
cliExits ==
    /\ call.fn \in CliOps /\ call.stage = "settled"
    /\ call.result.state = "resolved"
    /\ call' = [fn |-> call.fn, stage |-> "exited", answer |-> call.answer,
                response |-> call.response, result |-> call.result,
                process |-> cliAction(call.result.value)]
    /\ UNCHANGED <<now, ticks, authToken, sessionId, tasks, observed, ops>>

NextModules == requestReturns \/ methodSettles \/ cliExits

SpecModules == InitModules /\ [][NextModules]_vars

----------------------------------------------------------------------------
(* Vocabulary of the properties of the modules *)

\* a method has settled
MethodSettled == call.fn \in ListOps \cup SingleOps /\ call.stage = "settled"

\* the device answered the call with a 2xx response
Answered2xx == call.answer.type = "response"

\* the body of that response
AnswerBody == call.answer.response.data

\* the method resolved to a success envelope
MethodSucceeded ==
    /\ call.result.state = "resolved"
    /\ call.result.value.success

----------------------------------------------------------------------------
(* C16: when the device answers the call of a method with a 2xx response
   whose body reports an error status, the method resolves to an envelope
   with success = false and a populated error. *)
C16_ErrorStatusBodyFails ==
    (MethodSettled /\ Answered2xx /\ AnswerBody = ErrorStatusBody) =>
        /\ call.result.state = "resolved"
        /\ ~call.result.value.success
        /\ Truthy(Field(call.result.value, "error"))

----------------------------------------------------------------------------
(* C17: every list method, given a 2xx answer whose body is an array of
   n >= 1 objects, resolves to a success envelope whose data is the sequence
   of the n normalized objects in the same order; it does not reject. *)
C17_ListMethodsNormalizeEveryItem ==
    (/\ MethodSettled /\ call.fn \in ListOps /\ Answered2xx
     /\ IsArray(AnswerBody) /\ Len(AnswerBody.array) >= 1) =>
        /\ MethodSucceeded
        /\ Len(call.result.value.data.array) = Len(AnswerBody.array)
        /\ \A i \in DOMAIN AnswerBody.array :
              call.result.value.data.array[i]
                 = Parse(call.fn, "module", AnswerBody.array[i]).v

----------------------------------------------------------------------------
(* C18 *)

\* the event rules in the body of the answer, if it holds event rules
AnsweredRules ==
    IF ~Answered2xx THEN <<>>
    ELSE IF IsArray(AnswerBody) THEN AnswerBody.array
    ELSE IF AnswerBody \in RawEventRules THEN <<AnswerBody>>
    ELSE <<>>

\* the normalized rules of a success envelope of getEventRule / getEventRules
NormalizedRules ==
    IF call.fn = "getEventRule" THEN <<call.result.value.data>>
    ELSE call.result.value.data.array

\* the field holds text that is no JSON
NotJson(rule, f) == f \in DOMAIN rule /\ rule[f] = [str |-> "not json"]

(* C18: for every event rule the device returns, through getEventRule or as
   an element of getEventRules, conditions that are text which is no valid
   JSON normalize to the empty sequence, and so do such actions; the method
   resolves to a success envelope and does not reject. *)
C18_MalformedJsonGivesNoConditions ==
    (/\ MethodSettled /\ call.fn \in {"getEventRule", "getEventRules"}
     /\ \E i \in DOMAIN AnsweredRules :
           NotJson(AnsweredRules[i], "conditions") \/ NotJson(AnsweredRules[i], "actions")) =>
        /\ MethodSucceeded
        /\ \A i \in DOMAIN AnsweredRules :
              /\ NotJson(AnsweredRules[i], "conditions") =>
                    NormalizedRules[i].conditions = <<>>
              /\ NotJson(AnsweredRules[i], "actions") =>
                    NormalizedRules[i].actions = <<>>

----------------------------------------------------------------------------
(* C19: getVideoChannels, given a 2xx answer whose body is one video-channel
   object that is not wrapped in an array, resolves to a success envelope
   whose data is the one-element sequence of the normalized channel; given
   an array of n channels, to the sequence of the n normalized channels. *)
C19_SingleChannelIsWrapped ==
    (/\ MethodSettled /\ call.fn = "getVideoChannels" /\ Answered2xx
     /\ AnswerBody \notin {ErrorStatusBody, NullBody}) =>
        /\ MethodSucceeded
        /\ IF IsArray(AnswerBody)
           THEN /\ Len(call.result.value.data.array) = Len(AnswerBody.array)
                /\ \A i \in DOMAIN AnswerBody.array :
                      call.result.value.data.array[i]
                         = parseVideoChannel(AnswerBody.array[i])
           ELSE call.result.value.data.array = <<parseVideoChannel(AnswerBody)>>

\* getVideoChannels has settled for the single object {channel: "2",
\* enabled: true}: one channel, number 2, named by its number, with the
\* defaults
C19_Witness ==
    /\ MethodSettled /\ call.fn = "getVideoChannels" /\ Answered2xx
    /\ AnswerBody = [channel |-> "2", enabled |-> JsTrue]
    /\ MethodSucceeded
    /\ call.result.value.data.array =
          <<[channelId |-> 2, name |-> "Channel 2", enabled |-> TRUE,
             codec |-> "H.264", resolution |-> "1920x1080", framerate |-> 30,
             bitrate |-> 2000, quality |-> "high"]>>

----------------------------------------------------------------------------
(* C20 *)

\* the value of the first of two keys that the payload has, the default
\* when it has neither
FirstPresent(data, first, second, default) ==
    IF first \in DOMAIN data THEN data[first]
    ELSE IF second \in DOMAIN data THEN data[second]
    ELSE default

\* the value of the first of two keys whose value is not empty, the default
\* when there is none
FirstNonEmpty(data, first, second, default) ==
    IF Truthy(Field(data, first)) THEN data[first]
    ELSE IF Truthy(Field(data, second)) THEN data[second]
    ELSE default

\* getDeviceInfo has settled for a device-info payload
DeviceInfoSettled ==
    /\ MethodSettled /\ call.fn = "getDeviceInfo" /\ Answered2xx
    /\ AnswerBody \notin {ErrorStatusBody, NullBody}

(* C20 as stated: getDeviceInfo takes each field from the first source key
   that is present, in the order deviceName then name, model then
   deviceModel, serialNumber then serial, firmwareVersion then version,
   macAddress then mac, and the default "Unknown" when neither is present;
   uptime is 0 when absent. *)
C20_FirstPresentKey ==
    DeviceInfoSettled =>
        LET d == AnswerBody
            r == call.result.value.data
        IN  /\ MethodSucceeded
            /\ r.deviceName = FirstPresent(d, "deviceName", "name", "Unknown")
            /\ r.model = FirstPresent(d, "model", "deviceModel", "Unknown")
            /\ r.serialNumber = FirstPresent(d, "serialNumber", "serial", "Unknown")
            /\ r.firmwareVersion = FirstPresent(d, "firmwareVersion", "version", "Unknown")
            /\ r.macAddress = FirstPresent(d, "macAddress", "mac", "Unknown")
            /\ r.uptime = IF "uptime" \in DOMAIN d THEN d.uptime ELSE 0

(* C20 as amended: getDeviceInfo takes each field from the first source key
   whose value is not empty, in the order deviceName then name, model then
   deviceModel, serialNumber then serial, firmwareVersion then version,
   macAddress then mac, and the default "Unknown" when there is none (a key
   that is present with an empty value is passed over); uptime is 0 when
   absent.  For the payload {} every one of the five is "Unknown" and uptime
   is 0; for {deviceName: "Cam1", model: "X1"} those two are kept and
   serialNumber is "Unknown". *)
C20_FirstNonEmptyKey ==
    DeviceInfoSettled =>
        LET d == AnswerBody
            r == call.result.value.data
        IN  /\ MethodSucceeded
            /\ r.deviceName = FirstNonEmpty(d, "deviceName", "name", "Unknown")
            /\ r.model = FirstNonEmpty(d, "model", "deviceModel", "Unknown")
            /\ r.serialNumber = FirstNonEmpty(d, "serialNumber", "serial", "Unknown")
            /\ r.firmwareVersion = FirstNonEmpty(d, "firmwareVersion", "version", "Unknown")
            /\ r.macAddress = FirstNonEmpty(d, "macAddress", "mac", "Unknown")
            /\ r.uptime = IF "uptime" \in DOMAIN d THEN d.uptime ELSE 0
            /\ DOMAIN d = {} =>
                  /\ r.deviceName = "Unknown" /\ r.model = "Unknown"
                  /\ r.serialNumber = "Unknown" /\ r.firmwareVersion = "Unknown"
                  /\ r.macAddress = "Unknown" /\ r.uptime = 0
            /\ (DOMAIN d = {"deviceName", "model"} /\ d.deviceName = "Cam1") =>
                  /\ r.deviceName = "Cam1" /\ r.model = "X1"
                  /\ r.serialNumber = "Unknown"

\* getDeviceInfo has settled for the payload {deviceName: "Cam1", name:
\* "Cam2", ...}, in which both names of a field are set
C20_Witness ==
    /\ DeviceInfoSettled
    /\ {"deviceName", "name"} \subseteq DOMAIN AnswerBody
    /\ AnswerBody.deviceName = "Cam1" /\ AnswerBody.name = "Cam2"
    /\ call.result.value.data.deviceName = "Cam1"

----------------------------------------------------------------------------
(* C21: a subcommand of the command-line tool that runs a method of a module
   ends the process with a non-zero status when the envelope of the method
   has success = false, and with status 0 when it has success = true. *)
C21_CliExitStatusFollowsSuccess ==
    (call.fn \in CliOps /\ call.stage = "exited") =>
        (call.process.exitCode = 0) <=> call.result.value.success

----------------------------------------------------------------------------
(* C22 *)

\* a step of a call that task t runs on the client of module m
ModuleStep(t, m) ==
    /\ tasks'[t] # tasks[t]
    /\ tasks'[t].client = m
    /\ tasks'[t].op \in {"request", "login", "logout"}

(* C22: each module holds a session of its own: a login, a re-login after a
   401 or a logout that one module performs leaves the token, the expiry and
   the session id of the client and of every other module unchanged. *)
C22_ModuleSessionIsItsOwn ==
    [][\A t \in DOMAIN tasks, m \in Modules :
          ModuleStep(t, m) =>
             \A c \in DOMAIN authToken \ {m} :
                 /\ authToken'[c] = authToken[c]
                 /\ sessionId'[c] = sessionId[c]]_vars

\* after connect(), a request of a module was answered 401, the module
\* logged in again and now holds a session that differs from the client's
C22_Witness ==
    \E t \in DOMAIN tasks :
        /\ tasks[t].client \in Modules
        /\ tasks[t].op = "request" /\ Settled(t)
        /\ tasks[t].startAuth = "valid"
        /\ Sends(tasks[t].trace, {"login"}) # {}
        /\ authToken["main"].present
        /\ authToken[tasks[t].client].present
        /\ authToken[tasks[t].client] # authToken["main"]

----------------------------------------------------------------------------
(* C23 *)

\* the statuses logged for a failure other than HTTP 401: another non-2xx
\* status, or no response (timeout, connection failure)
OtherFailures == {"500", "network"}

(* C23: a dispatched call that fails with anything other than HTTP 401 is
   never retried: nothing is dispatched after the failure, neither the call
   again nor a login; so a request() of an authenticated client whose feature
   call fails in this way has issued exactly one HTTP call and no login.
   The client never reads the option `retries`, so this holds for each of
   its values. *)
C23_OtherFailuresAreNotRetried ==
    \A t \in DOMAIN tasks :
        LET tr == tasks[t].trace
        IN  /\ \A i \in Events(tr, "recv", AllKinds) :
                  tr[i].status \in OtherFailures =>
                     \A j \in DOMAIN tr :
                        j > i => tr[j].e \notin {"send", "refresh", "retry"}
            /\ (/\ tasks[t].op = "request" /\ tasks[t].startAuth = "valid"
                /\ Len(Answers(tr)) >= 1
                /\ Answers(tr)[1].status \in OtherFailures) =>
                    /\ Cardinality(Sends(tr, AllKinds)) = 1
                    /\ Sends(tr, {"login"}) = {}
                    /\ Settled(t)

\* the feature call of a request() of an authenticated client timed out, and
\* the request() has returned
C23_Witness ==
    \E t \in DOMAIN tasks :
        /\ tasks[t].op = "request" /\ Resolved(t)
        /\ tasks[t].startAuth = "valid"
        /\ tasks[t].trace = <<Event("send", "feature", "-"),
                              Event("recv", "feature", "network")>>
        /\ LastIsError(t)
        /\ Field(LastError(t), "code") = "ECONNABORTED"

----------------------------------------------------------------------------
(* Concurrent calls on one client: each task is a chain of awaits of its own,
   and the steps of the chains interleave at the awaits. *)

\* HTTP calls of all the tasks in one behaviour of concurrent calls
MaxConcurrentCalls == 6

ConcurrentTasks == {"t1", "t2"}

RECURSIVE SendsOf(_, _)
SendsOf(tks, ts) ==
    IF ts = {} THEN 0
    ELSE LET t == CHOOSE x \in ts : TRUE
         IN  Cardinality(Sends(tks[t].trace, AllKinds)) + SendsOf(tks, ts \ {t})

\* the step keeps the HTTP calls of all the tasks within MaxConcurrentCalls
WithinCalls == SendsOf(tasks', DOMAIN tasks) <= MaxConcurrentCalls

\* a session of an earlier login that has just expired
ExpiredSession ==
    [authToken |-> [present |-> TRUE, token |-> "tok0", expiresAt |-> 0,
                    sessionId |-> "sid0"],
     sessionId |-> "sid0"]

\* a caller starts a request() without awaiting the one started before
concurrentRequest(t) ==
    /\ tasks[t].op = "idle"
    /\ request(t, "main")
    /\ WithinCalls
    /\ UNCHANGED ops

\* the client has no valid session: none at all, or an expired one
InitConcurrent ==
    /\ now = 0
    /\ ticks = 0
    /\ \E s \in {[authToken |-> NoToken, sessionId |-> Undefined], ExpiredSession} :
          /\ authToken = [c \in Clients |-> s.authToken]
          /\ sessionId = [c \in Clients |-> s.sessionId]
    /\ tasks = [t \in ConcurrentTasks |-> IdleTask("main")]
    /\ observed = NotObserved
    /\ call = NoCall
    /\ ops = NoOps

NextConcurrent ==
    \/ \E t \in DOMAIN tasks : concurrentRequest(t)
    \/ \E t \in DOMAIN tasks : responseFulfilled(t) /\ WithinCalls
    \/ \E t \in DOMAIN tasks : responseRejected(t) /\ WithinCalls

SpecConcurrent == InitConcurrent /\ [][NextConcurrent]_vars

----------------------------------------------------------------------------
(* C24 *)

\* the session stored on client c is that of one login response: token,
\* expiry and session id come from the same body
WholeLogin(c) ==
    \E body \in LoginOkBodies :
        /\ authToken[c] = newAuthToken(body, now)
        /\ sessionId[c] = body.sessionId

\* a login of task t has succeeded
LoginSucceeded(t) ==
    Event("recv", "login", "200 OK") \in
        {tasks[t].trace[i] : i \in DOMAIN tasks[t].trace}

(* C24: when two requests are started concurrently on a client without a
   valid session, each request that found no valid session dispatches its
   feature call only after a login it awaited has completed with success, and once a login has succeeded the
   stored session is that of one whole login: token, expiry and session id
   of the same login response. *)
C24_ConcurrentLoginsStoreOneSession ==
    /\ \A t \in DOMAIN tasks :
          LET tr == tasks[t].trace
          IN  tasks[t].startAuth # "valid" =>
                 \A i \in Sends(tr, {"feature"}) :
                    \E j \in Events(tr, "recv", {"login"}) :
                       j < i /\ tr[j].status = "200 OK"
    /\ (\E t \in DOMAIN tasks : LoginSucceeded(t)) => WholeLogin("main")

\* both requests passed ensureAuthenticated() before either login completed:
\* two login calls of the one client are in flight
TwoLoginsInFlight ==
    \A t \in DOMAIN tasks :
        /\ tasks[t].startAuth # "valid"
        /\ tasks[t].trace = <<Event("send", "login", "-")>>

\* two requests that both found no valid session and both logged in have
\* both returned the answer to their feature call; the session stored is the
\* one of a login response with the token tokB
C24_Witness ==
    /\ \A t \in DOMAIN tasks :
          /\ tasks[t].op = "request" /\ Resolved(t)
          /\ tasks[t].startAuth # "valid"
          /\ Len(tasks[t].trace) >= 4
          /\ tasks[t].trace[2] = Event("recv", "login", "200 OK")
          /\ tasks[t].trace[4] = Event("recv", "feature", "200")
    /\ authToken["main"].present
    /\ authToken["main"].token = "tokB"

----------------------------------------------------------------------------
(* Termination of one call.  For this question the history of a task is not
   kept, so that a sequence of calls that goes round is a cycle of states:
   the trace is dropped, and so are the frames of the interceptor that await
   a retried call, which hand its value or its error on unchanged
   (retrySettled).  Re-logins nested in the login call of a re-login are
   followed to the depth MaxDepth. *)

\* frames of one task
MaxDepth == 6

\* the frames other than those awaiting a retried call
DropRetry(stack) ==
    SelectSeq(stack, LAMBDA f : ~(f.k = "axios" /\ f.stage = "retry"))

\* the task without its history
Forget(st) ==
    [st EXCEPT !.tk.trace = <<>>, !.tk.stack = DropRetry(@)]

\* one call is started: request(), login() or logout()
start(t) ==
    /\ tasks[t].op = "idle"
    /\ \E st \in {requestStart("main"), loginStart("main"), logoutStart("main")} :
          Commit(t, Forget(Run(st)))
    /\ UNCHANGED ops

\* the HTTP exchange in flight completes, with a 2xx response or a failure
exchangeCompletes(t) ==
    /\ InFlight(t)
    /\ \E st \in {interceptFulfilled(Cur(t), [status |-> 200, data |-> body]) :
                     body \in Bodies(TopOf(tasks[t].stack).kind)}
                 \cup {interceptRejected(Cur(t), error) : error \in AxiosErrors} :
          /\ Len(Forget(Run(st)).tk.stack) <= MaxDepth
          /\ Commit(t, Forget(Run(st)))
    /\ UNCHANGED ops

\* the client holds a session, valid or expired, or none
InitTermination ==
    /\ now = 0
    /\ ticks = 0
    /\ \E s \in {[authToken |-> NoToken, sessionId |-> Undefined], ExpiredSession}
                \cup {[authToken |-> newAuthToken(body, 0), sessionId |-> body.sessionId] :
                         body \in LoginOkBodies} :
          /\ authToken = [c \in Clients |-> s.authToken]
          /\ sessionId = [c \in Clients |-> s.sessionId]
    /\ tasks = [t \in Tasks |-> IdleTask("main")]
    /\ observed = NotObserved
    /\ call = NoCall
    /\ ops = NoOps

NextTermination ==
    \/ \E t \in DOMAIN tasks : start(t)
    \/ \E t \in DOMAIN tasks : exchangeCompletes(t)

\* each individual HTTP exchange completes
SpecTermination ==
    /\ InitTermination
    /\ [][NextTermination]_vars
    /\ \A t \in Tasks : WF_vars(exchangeCompletes(t))

----------------------------------------------------------------------------
(* C25: every call of request(), login() and logout() eventually resolves or
   rejects, provided each HTTP exchange completes: no behaviour of the device
   makes the client issue logins and retries without end. *)
C25_EveryCallSettles ==
    \A t \in Tasks : (tasks[t].op # "idle") ~> Settled(t)

----------------------------------------------------------------------------
(* C26: a login() that fails leaves the stored session as it was, so the
   client is authenticated afterwards exactly if it was before.  Stated for
   a client that holds no session or an expired one when login() is called:
   such a session cannot become valid by the passage of time, so after the
   failed login() the client still holds none, or the expired one. *)
C26_FailedLoginKeepsSession ==
    \A t \in DOMAIN tasks :
        (/\ tasks[t].op = "login" /\ Rejected(t)
         /\ tasks[t].startAuth # "valid") =>
            AuthState(tasks[t].client) = tasks[t].startAuth

----------------------------------------------------------------------------
(* C27 *)

\* the call of task t in flight is the retry that follows a re-login
RetryInFlight(t) ==
    /\ InFlight(t)
    /\ Len(tasks[t].trace) >= 3
    /\ tasks[t].trace[Len(tasks[t].trace) - 1].e = "retry"
    /\ LastIsResponse(t)

(* C27: after a 401 has started a re-login that succeeded, the retried call
   carries the token and the session id of that login response, not those
   attached to the first attempt, and the session stored is the new one. *)
C27_RetryCarriesNewCredentials ==
    \A t \in DOMAIN tasks :
        RetryInFlight(t) =>
            LET body == LastBody(t)
                hdr == TopOf(tasks[t].stack).hdr
            IN  /\ hdr.auth = OrElse(body.token, body.sessionId)
                /\ hdr.sid = body.sessionId
                /\ authToken[tasks[t].client] = newAuthToken(body, now)
                /\ sessionId[tasks[t].client] = body.sessionId

----------------------------------------------------------------------------
(* C28: in every state reached through login, logout, request, connect and
   disconnect, on the client and on each module, the session id stored on
   its own equals the session id recorded in the stored token record, and a
   session id is stored only while a token record is stored. *)
C28_SessionIdMatchesToken ==
    \A c \in DOMAIN authToken :
        IF authToken[c].present
        THEN sessionId[c] = authToken[c].sessionId
        ELSE sessionId[c] = Undefined

\* the client and a module hold different sessions, each with a session id,
\* after a connect() and a re-login of the module
C28_Witness ==
    \E m \in Modules :
        /\ authToken["main"].present /\ Truthy(sessionId["main"])
        /\ authToken[m].present /\ Truthy(sessionId[m])
        /\ sessionId[m] # sessionId["main"]

----------------------------------------------------------------------------
(* C29 *)

\* the fields of a device-info record that have a default
DefaultBearing ==
    {"deviceName", "model", "serialNumber", "firmwareVersion", "macAddress", "uptime"}

\* data has the normalized shape of the method: a sequence for a list
\* method, a record with its fields set for the others
NormalizedShape(op, data) ==
    CASE op \in ListOps -> IsArray(data)
      [] op = "getDeviceInfo" -> DefaultBearing \subseteq DOMAIN data
      [] op = "getEventRule" -> {"ruleId", "conditions", "actions"} \subseteq DOMAIN data

(* C29: whenever a normalizing method returns success = true, its data has
   the normalized shape of the method, for every 2xx body of the device, an
   empty or null body included: a successful getVideoChannels carries a
   sequence, a successful getDeviceInfo a record with every default-bearing
   field set. *)
C29_SuccessHasNormalizedShape ==
    (MethodSettled /\ MethodSucceeded) =>
        NormalizedShape(call.fn, call.result.value.data)

----------------------------------------------------------------------------
(* disconnect() while a method of a module is suspended: the method was
   called first and awaits its login or its HTTP response when disconnect()
   is called by another caller. *)

\* the session a connect() has stored on the client and on each module
ConnectedSession ==
    [authToken |-> newAuthToken([status |-> "OK", token |-> "tokA",
                                 sessionId |-> "sidA"], 0),
     sessionId |-> "sidA"]

\* the caller of the method and the caller of disconnect()
MethodCaller == "t1"
Disconnecter == "t2"

\* a method of module m is called
methodCalled(m) ==
    /\ tasks[MethodCaller].op = "idle"
    /\ moduleRequest(MethodCaller, m)

\* disconnect() is called while the method is suspended
disconnectWhileSuspended ==
    /\ tasks[Disconnecter].op = "idle"
    /\ tasks[MethodCaller].op = "request" /\ ~Settled(MethodCaller)
    /\ disconnect(Disconnecter)

\* the instance has not connected, or has connected
InitSuspended ==
    /\ now = 0
    /\ ticks = 0
    /\ \E s \in {[authToken |-> NoToken, sessionId |-> Undefined], ConnectedSession} :
          /\ authToken = [c \in SunapiClients |-> s.authToken]
          /\ sessionId = [c \in SunapiClients |-> s.sessionId]
    /\ tasks = [t \in {MethodCaller, Disconnecter} |-> IdleTask("main")]
    /\ observed = NotObserved
    /\ call = NoCall
    /\ ops = NoOps

NextSuspended ==
    \/ \E m \in Modules : methodCalled(m)
    \/ disconnectWhileSuspended
    \/ \E t \in DOMAIN tasks : responseFulfilled(t)
    \/ \E t \in DOMAIN tasks : responseRejected(t)

SpecSuspended == InitSuspended /\ [][NextSuspended]_vars

----------------------------------------------------------------------------
(* C30: if disconnect() runs while a request of a module that was started
   earlier is still suspended, then once disconnect() and that request have
   both completed, and nothing else was started, the module holds no
   session: it is not authenticated. *)
C30_NoSessionAfterDisconnect ==
    (Settled(Disconnecter) /\ Settled(MethodCaller)) =>
        LET m == tasks[MethodCaller].client
        IN  /\ ~authToken[m].present
            /\ sessionId[m] = Undefined
            /\ ~isAuthenticated(m)

====
